---- MODULE Spec2Model ----
(***************************************************************************)
(* Model of homework.py: the fitness-tracker calculation layer             *)
(* (Training / Running / SportsWalking / Swimming, InfoMessage), the       *)
(* validator check_data, the factory read_package and the batch driver     *)
(* under `if __name__ == '__main__'`.                                      *)
(*                                                                         *)
(* Numbers.  Python ints and floats are modelled as exact rationals        *)
(* <<n, d>> in lowest terms with d > 0.  TLC's integers are 32 bit, so the *)
(* inputs are chosen such that every intermediate value of the formulas    *)
(* stays inside that range (TLC stops with an overflow error otherwise).   *)
(* Sequences are 1-based: Python's data[2] is data[3] here.                *)
(***************************************************************************)
EXTENDS Integers, Sequences, FiniteSets, TLC

VARIABLES packages, idx, pc, results, training, readCalls, printed, error

vars == <<packages, idx, pc, results, training, readCalls, printed, error>>

----------------------------------------------------------------------------
(* Arithmetic of Python numbers, as exact rationals.                       *)

Abs(n) == IF n < 0 THEN -n ELSE n

RECURSIVE GCD(_, _)
GCD(a, b) == IF b = 0 THEN a ELSE GCD(b, a % b)

Norm(n, d) == LET g == GCD(Abs(n), d) IN <<n \div g, d \div g>>

\* an int literal
N(k) == <<k, 1>>

\* a decimal literal n/d, e.g. 0.65 is D(65, 100)
D(n, d) == Norm(n, d)

\* a * b
RMul(a, b) ==
    LET g1 == GCD(Abs(a[1]), b[2])
        g2 == GCD(Abs(b[1]), a[2])
    IN  <<(a[1] \div g1) * (b[1] \div g2), (a[2] \div g2) * (b[2] \div g1)>>

\* a / b, for b > 0 (the callers raise ZeroDivisionError on b = 0 first)
RDiv(a, b) == RMul(a, <<b[2], b[1]>>)

\* a + b
RAdd(a, b) ==
    LET g == GCD(a[2], b[2])
    IN  Norm(a[1] * (b[2] \div g) + b[1] * (a[2] \div g), (a[2] \div g) * b[2])

\* a < b
RLt(a, b) == a[1] * b[2] < b[1] * a[2]

IsZero(a) == a[1] = 0

\* what a function call does: return a value or raise an exception
Return(v) == [exc |-> "", val |-> v]
Raise(e) == [exc |-> e]

----------------------------------------------------------------------------
(* Class constants.                                                        *)

M_IN_KM == 1000
H_IN_M == 60
CM_IN_M == 100
KM_PER_H_IN_M_PER_S == D(278, 1000)
CALORIES_WEIGHT_MULTIPLIER_1 == D(35, 1000)
CALORIES_WEIGHT_MULTIPLIER_2 == D(29, 1000)
Running_CALORIES_MEAN_SPEED_MULTIPLIER == 18
Running_CALORIES_MEAN_SPEED_SHIFT == D(179, 100)
Swimming_CALORIES_MEAN_SPEED_ADDITION == D(11, 10)
Swimming_CALORIES_MEAN_SPEED_MULTIPLIER == 2

\* Training.LEN_STEP, overridden by Swimming.LEN_STEP
LEN_STEP(cls) == IF cls = "Swimming" THEN D(138, 100) ELSE D(65, 100)

\* the mapping workouts: code -> class
workouts == [c \in {"SWM", "RUN", "WLK"} |->
                CASE c = "SWM" -> "Swimming"
                  [] c = "RUN" -> "Running"
                  [] c = "WLK" -> "SportsWalking"]

\* the number of positional parameters of each class's __init__ (after self)
InitArity(cls) ==
    CASE cls = "Swimming" -> 5
      [] cls = "Running" -> 3
      [] cls = "SportsWalking" -> 4

----------------------------------------------------------------------------
(* The Training classes.                                                   *)

\* cls(*data): the object's attributes after __init__
Construct(cls, data) ==
    CASE cls = "Running" ->
            [cls |-> cls, action |-> data[1], duration |-> data[2],
             weight |-> data[3]]
      [] cls = "SportsWalking" ->
            [cls |-> cls, action |-> data[1], duration |-> data[2],
             weight |-> data[3], height |-> data[4]]
      [] cls = "Swimming" ->
            [cls |-> cls, action |-> data[1], duration |-> data[2],
             weight |-> data[3], length_pool |-> data[4],
             count_pool |-> data[5]]

\* Training.get_distance
get_distance(self) ==
    Return(RDiv(RMul(self.action, LEN_STEP(self.cls)), N(M_IN_KM)))

\* Training.get_mean_speed answering 0 for a zero duration instead of raising
Training_get_mean_speed_ZeroGuard(self) ==
    IF IsZero(self.duration)
    THEN Return(N(0))
    ELSE Return(RDiv(get_distance(self).val, self.duration))

\* Training.get_mean_speed
Training_get_mean_speed(self) ==
    IF IsZero(self.duration)
    THEN Raise("ZeroDivisionError")
    ELSE Return(RDiv(get_distance(self).val, self.duration))

\* Swimming.get_mean_speed left as inherited: distance / duration
Swimming_get_mean_speed_Inherited(self) ==
    IF IsZero(self.duration)
    THEN Raise("ZeroDivisionError")
    ELSE Return(RDiv(get_distance(self).val, self.duration))

\* Swimming.get_mean_speed
Swimming_get_mean_speed(self) ==
    IF IsZero(self.duration)
    THEN Raise("ZeroDivisionError")
    ELSE Return(RDiv(RDiv(RMul(self.length_pool, self.count_pool),
                          N(M_IN_KM)),
                     self.duration))

\* method resolution of get_mean_speed
get_mean_speed(self) ==
    IF self.cls = "Swimming"
    THEN Swimming_get_mean_speed(self)
    ELSE Training_get_mean_speed(self)

\* Running.get_spent_calories with the speed shift subtracted
Running_get_spent_calories_MinusShift(self) ==
    LET speed == get_mean_speed(self) IN
    IF speed.exc # "" THEN Raise(speed.exc)
    ELSE Return(
        RMul(RMul(RDiv(RMul(RAdd(RMul(N(Running_CALORIES_MEAN_SPEED_MULTIPLIER),
                                      speed.val),
                                 <<-Running_CALORIES_MEAN_SPEED_SHIFT[1],
                                   Running_CALORIES_MEAN_SPEED_SHIFT[2]>>),
                            self.weight),
                       N(M_IN_KM)),
                  self.duration),
             N(H_IN_M)))

\* Running.get_spent_calories
Running_get_spent_calories(self) ==
    LET speed == get_mean_speed(self) IN
    IF speed.exc # "" THEN Raise(speed.exc)
    ELSE Return(
        RMul(RMul(RDiv(RMul(RAdd(RMul(N(Running_CALORIES_MEAN_SPEED_MULTIPLIER),
                                      speed.val),
                                 Running_CALORIES_MEAN_SPEED_SHIFT),
                            self.weight),
                       N(M_IN_KM)),
                  self.duration),
             N(H_IN_M)))

\* SportsWalking.get_spent_calories
SportsWalking_get_spent_calories(self) ==
    LET speed == get_mean_speed(self) IN
    IF speed.exc # "" THEN Raise(speed.exc)
    ELSE IF IsZero(self.height) THEN Raise("ZeroDivisionError")
    ELSE LET ms == RMul(speed.val, KM_PER_H_IN_M_PER_S)
             sq == RMul(ms, ms)
             hm == RDiv(self.height, N(CM_IN_M))
         IN  Return(
               RMul(RMul(RAdd(RMul(CALORIES_WEIGHT_MULTIPLIER_1, self.weight),
                              RMul(RMul(RDiv(sq, hm),
                                        CALORIES_WEIGHT_MULTIPLIER_2),
                                   self.weight)),
                         self.duration),
                    N(H_IN_M)))

\* Swimming.get_spent_calories
Swimming_get_spent_calories(self) ==
    LET speed == get_mean_speed(self) IN
    IF speed.exc # "" THEN Raise(speed.exc)
    ELSE Return(
        RMul(RMul(RMul(RAdd(speed.val, Swimming_CALORIES_MEAN_SPEED_ADDITION),
                       N(Swimming_CALORIES_MEAN_SPEED_MULTIPLIER)),
                  self.weight),
             self.duration))

\* method resolution of get_spent_calories
get_spent_calories(self) ==
    CASE self.cls = "Running" -> Running_get_spent_calories(self)
      [] self.cls = "SportsWalking" -> SportsWalking_get_spent_calories(self)
      [] self.cls = "Swimming" -> Swimming_get_spent_calories(self)

\* Training.show_training_info: the arguments are evaluated left to right
show_training_info(self) ==
    LET distance == get_distance(self)
        speed == get_mean_speed(self)
        calories == get_spent_calories(self)
    IN  IF speed.exc # "" THEN Raise(speed.exc)
        ELSE IF calories.exc # "" THEN Raise(calories.exc)
        ELSE Return([training_type |-> self.cls,
                     duration |-> self.duration,
                     distance |-> distance.val,
                     speed |-> speed.val,
                     calories |-> calories.val])

----------------------------------------------------------------------------
(* InfoMessage.get_message.                                                *)

\* '{x:.3f}': x rounded to three decimals, in thousandths, by long division.
\* On an exact tie the float's representation error decides in Python; the
\* inputs of the model produce no ties.
Format3f(x) ==
    LET d == x[2]
        q == x[1] \div d
        r0 == x[1] % d
        d1 == (r0 * 10) \div d
        r1 == (r0 * 10) % d
        d2 == (r1 * 10) \div d
        r2 == (r1 * 10) % d
        d3 == (r2 * 10) \div d
        r3 == (r2 * 10) % d
        t == q * 1000 + d1 * 100 + d2 * 10 + d3
    IN  IF r3 > d - r3 \/ (r3 = d - r3 /\ t % 2 = 1) THEN t + 1 ELSE t

\* the fields of the line that message_template.format(**asdict(self)) renders
get_message(self) ==
    [training_type |-> self.training_type,
     duration |-> Format3f(self.duration),
     distance |-> Format3f(self.distance),
     speed |-> Format3f(self.speed),
     calories |-> Format3f(self.calories)]

----------------------------------------------------------------------------
(* check_data and read_package.                                            *)

\* 'Некорректное количество аргументов.'
MsgArgs == "wrong argument count"
\* 'Неверно указанный вес.'
MsgWeight == "invalid weight"
\* 'Неверно указана длина бассейна. Необходимо указать длину в м.'
MsgPool == "invalid pool length"
\* 'Неверно указан рост. Необходимо указать рост в см.'
MsgHeight == "invalid height"
\* 'Неверно указан шифр тренировки.'
MsgCode == "unknown workout code"
\* result: Optional[str] = None
None == "None"

\* lo < x < hi
Between(lo, x, hi) == RLt(lo, x) /\ RLt(x, hi)

\* check_data with the unknown-code check moved in front of the weight check
check_data_CodeFirst(workout_type, data) ==
    IF workout_type = "SWM" /\ Len(data) # 5 THEN Return(MsgArgs)
    ELSE IF workout_type = "RUN" /\ Len(data) # 3 THEN Return(MsgArgs)
    ELSE IF workout_type = "WLK" /\ Len(data) # 4 THEN Return(MsgArgs)
    ELSE IF workout_type \notin DOMAIN workouts THEN Return(MsgCode)
    ELSE IF ~Between(N(35), data[3], N(610)) THEN Return(MsgWeight)
    ELSE IF workout_type = "SWM" /\ ~Between(N(1), data[4], N(1013))
         THEN Return(MsgPool)
    ELSE IF workout_type = "WLK" /\ ~Between(N(50), data[4], N(251))
         THEN Return(MsgHeight)
    ELSE Return(None)

\* check_data with a missing weight reported as an invalid weight
check_data_ShortIsWeight(workout_type, data) ==
    IF workout_type = "SWM" /\ Len(data) # 5 THEN Return(MsgArgs)
    ELSE IF workout_type = "RUN" /\ Len(data) # 3 THEN Return(MsgArgs)
    ELSE IF workout_type = "WLK" /\ Len(data) # 4 THEN Return(MsgArgs)
    ELSE IF Len(data) < 3 THEN Return(MsgWeight)
    ELSE IF ~Between(N(35), data[3], N(610)) THEN Return(MsgWeight)
    ELSE IF workout_type = "SWM" /\ ~Between(N(1), data[4], N(1013))
         THEN Return(MsgPool)
    ELSE IF workout_type = "WLK" /\ ~Between(N(50), data[4], N(251))
         THEN Return(MsgHeight)
    ELSE IF workout_type \notin DOMAIN workouts THEN Return(MsgCode)
    ELSE Return(None)

\* check_data without the final unknown-code branch
check_data_NoCodeCheck(workout_type, data) ==
    IF workout_type = "SWM" /\ Len(data) # 5 THEN Return(MsgArgs)
    ELSE IF workout_type = "RUN" /\ Len(data) # 3 THEN Return(MsgArgs)
    ELSE IF workout_type = "WLK" /\ Len(data) # 4 THEN Return(MsgArgs)
    ELSE IF Len(data) < 3 THEN Raise("IndexError")
    ELSE IF ~Between(N(35), data[3], N(610)) THEN Return(MsgWeight)
    ELSE IF workout_type = "SWM" /\ ~Between(N(1), data[4], N(1013))
         THEN Return(MsgPool)
    ELSE IF workout_type = "WLK" /\ ~Between(N(50), data[4], N(251))
         THEN Return(MsgHeight)
    ELSE Return(None)

\* check_data with the weight bounds inclusive: 35 <= data[2] <= 610
check_data_InclusiveWeight(workout_type, data) ==
    IF workout_type = "SWM" /\ Len(data) # 5 THEN Return(MsgArgs)
    ELSE IF workout_type = "RUN" /\ Len(data) # 3 THEN Return(MsgArgs)
    ELSE IF workout_type = "WLK" /\ Len(data) # 4 THEN Return(MsgArgs)
    ELSE IF Len(data) < 3 THEN Raise("IndexError")
    ELSE IF RLt(data[3], N(35)) \/ RLt(N(610), data[3]) THEN Return(MsgWeight)
    ELSE IF workout_type = "SWM" /\ ~Between(N(1), data[4], N(1013))
         THEN Return(MsgPool)
    ELSE IF workout_type = "WLK" /\ ~Between(N(50), data[4], N(251))
         THEN Return(MsgHeight)
    ELSE IF workout_type \notin DOMAIN workouts THEN Return(MsgCode)
    ELSE Return(None)

\* check_data with the pool-length bounds inclusive: 1 <= data[3] <= 1013
check_data_InclusivePool(workout_type, data) ==
    IF workout_type = "SWM" /\ Len(data) # 5 THEN Return(MsgArgs)
    ELSE IF workout_type = "RUN" /\ Len(data) # 3 THEN Return(MsgArgs)
    ELSE IF workout_type = "WLK" /\ Len(data) # 4 THEN Return(MsgArgs)
    ELSE IF Len(data) < 3 THEN Raise("IndexError")
    ELSE IF ~Between(N(35), data[3], N(610)) THEN Return(MsgWeight)
    ELSE IF workout_type = "SWM"
            /\ (RLt(data[4], N(1)) \/ RLt(N(1013), data[4]))
         THEN Return(MsgPool)
    ELSE IF workout_type = "WLK" /\ ~Between(N(50), data[4], N(251))
         THEN Return(MsgHeight)
    ELSE IF workout_type \notin DOMAIN workouts THEN Return(MsgCode)
    ELSE Return(None)

\* check_data without the argument-count branch of 'WLK'
check_data_NoWalkArity(workout_type, data) ==
    IF workout_type = "SWM" /\ Len(data) # 5 THEN Return(MsgArgs)
    ELSE IF workout_type = "RUN" /\ Len(data) # 3 THEN Return(MsgArgs)
    ELSE IF Len(data) < 3 THEN Raise("IndexError")
    ELSE IF ~Between(N(35), data[3], N(610)) THEN Return(MsgWeight)
    ELSE IF workout_type = "SWM" /\ ~Between(N(1), data[4], N(1013))
         THEN Return(MsgPool)
    ELSE IF workout_type = "WLK" /\ Len(data) < 4 THEN Raise("IndexError")
    ELSE IF workout_type = "WLK" /\ ~Between(N(50), data[4], N(251))
         THEN Return(MsgHeight)
    ELSE IF workout_type \notin DOMAIN workouts THEN Return(MsgCode)
    ELSE Return(None)

\* check_data: the elif chain; data[2] and data[3] raise IndexError on a
\* list that is too short
check_data(workout_type, data) ==
    IF workout_type = "SWM" /\ Len(data) # 5 THEN Return(MsgArgs)
    ELSE IF workout_type = "RUN" /\ Len(data) # 3 THEN Return(MsgArgs)
    ELSE IF workout_type = "WLK" /\ Len(data) # 4 THEN Return(MsgArgs)
    ELSE IF Len(data) < 3 THEN Raise("IndexError")
    ELSE IF ~Between(N(35), data[3], N(610)) THEN Return(MsgWeight)
    ELSE IF workout_type = "SWM" /\ Len(data) < 4 THEN Raise("IndexError")
    ELSE IF workout_type = "SWM" /\ ~Between(N(1), data[4], N(1013))
         THEN Return(MsgPool)
    ELSE IF workout_type = "WLK" /\ Len(data) < 4 THEN Raise("IndexError")
    ELSE IF workout_type = "WLK" /\ ~Between(N(50), data[4], N(251))
         THEN Return(MsgHeight)
    ELSE IF workout_type \notin DOMAIN workouts THEN Return(MsgCode)
    ELSE Return(None)

\* read_package: workouts[workout_type](*data)
read_package(workout_type, data) ==
    IF workout_type \notin DOMAIN workouts THEN Raise("KeyError")
    ELSE IF Len(data) # InitArity(workouts[workout_type])
         THEN Raise("TypeError")
    ELSE Return(Construct(workouts[workout_type], data))

----------------------------------------------------------------------------
(* The batches the driver is run on.                                       *)

\* longest batch of the driver runs
MaxBatch == 2

Codes == {"SWM", "RUN", "WLK", "PLT"}

E(code, data) == [workout_type |-> code, data |-> data]

\* the packages of the source (the walking ones with an action count whose
\* calories stay in range), and variations of them: another stroke count,
\* a zero duration for each class, an unknown code with a bad weight and
\* with a short list
Entries ==
    { E("SWM", <<N(720), N(1), N(80), N(25), N(40)>>),
      E("RUN", <<N(15000), N(1), N(75)>>),
      E("WLK", <<N(20000), N(1), N(75), N(180)>>),
      E("PLT", <<N(12000), N(1), N(60)>>),
      E("SWM", <<N(230), N(1), N(70), D(25, 100), N(38)>>),
      E("RUN", <<N(23000), D(115, 100), N(655)>>),
      E("WLK", <<N(4000), N(2), N(60), D(165, 100)>>),
      E("SWM", <<N(340), N(4), N(60), N(3000)>>),
      E("SWM", <<N(721), N(1), N(80), N(25), N(40)>>),
      E("SWM", <<N(720), N(0), N(80), N(25), N(40)>>),
      E("RUN", <<N(15000), N(0), N(75)>>),
      E("WLK", <<N(20000), N(0), N(75), N(180)>>),
      E("PLT", <<N(12000), N(1), N(30)>>),
      E("PLT", <<N(12000), N(1)>>) }

\* argument lists around every boundary of check_data, of 2 to 6 elements
WideActions == {N(0), N(720)}
WideDurations == {N(0), N(1), N(2)}
WideWeights == {N(35), D(3501, 100), N(75), D(60999, 100), N(610)}
WideFourth == {N(1), D(101, 100), N(25), N(50), D(505, 10), N(180),
               N(250), N(251), N(1012), N(1013)}
WideFifth == {N(40)}

WideFull == {<<a, t, w, x, c, c>> : a \in WideActions, t \in WideDurations,
                w \in WideWeights, x \in WideFourth, c \in WideFifth}

WideData == {SubSeq(f, 1, n) : f \in WideFull, n \in 2..6}

\* walking calories of a non-zero step count leave the 32-bit range for most
\* weights, so the walking lists of the wide family have zero steps
WideEntries ==
    {E(c, d) : c \in Codes \ {"WLK"}, d \in WideData}
    \cup {E("WLK", d) : d \in {x \in WideData : IsZero(x[1])}}

RECURSIVE SeqsOf(_, _)
SeqsOf(S, n) ==
    IF n = 0 THEN {<<>>}
    ELSE {Append(s, e) : s \in SeqsOf(S, n - 1), e \in S}

Batches ==
    UNION {SeqsOf(Entries, n) : n \in 1..MaxBatch}
    \cup {<<e>> : e \in WideEntries}

----------------------------------------------------------------------------
(* The driver: for workout_type, data in packages: ...                     *)

NoTraining == [cls |-> "none"]

Init ==
    /\ packages \in Batches
    /\ idx = 1
    /\ pc = "check"
    /\ results = <<>>
    /\ training = NoTraining
    /\ readCalls = <<>>
    /\ printed = <<>>
    /\ error = ""

\* the loop skipping a rejected entry and continuing with the next one
CheckData_SkipAndContinue ==
    /\ pc = "check"
    /\ LET r == check_data(packages[idx].workout_type, packages[idx].data) IN
       IF r.exc # ""
       THEN /\ pc' = "faulted"
            /\ error' = r.exc
            /\ results' = Append(results, "raised")
            /\ idx' = idx
       ELSE /\ results' = Append(results, r.val)
            /\ error' = error
            /\ IF r.val # None
               THEN /\ idx' = idx + 1
                    /\ pc' = IF idx = Len(packages) THEN "done" ELSE "check"
               ELSE pc' = "read" /\ idx' = idx
    /\ UNCHANGED <<packages, training, readCalls, printed>>

\* check_data_result = check_data(workout_type, data)
\* if check_data_result: raise ValueError(check_data_result)
CheckData ==
    /\ pc = "check"
    /\ LET r == check_data(packages[idx].workout_type, packages[idx].data) IN
       IF r.exc # ""
       THEN /\ pc' = "faulted"
            /\ error' = r.exc
            /\ results' = Append(results, "raised")
       ELSE /\ results' = Append(results, r.val)
            /\ IF r.val # None
               THEN pc' = "faulted" /\ error' = "ValueError"
               ELSE pc' = "read" /\ error' = error
    /\ UNCHANGED <<packages, idx, training, readCalls, printed>>

\* training = read_package(workout_type, data)
ReadPackage ==
    /\ pc = "read"
    /\ readCalls' = Append(readCalls, idx)
    /\ LET r == read_package(packages[idx].workout_type, packages[idx].data) IN
       IF r.exc # ""
       THEN pc' = "faulted" /\ error' = r.exc /\ training' = training
       ELSE pc' = "main" /\ error' = error /\ training' = r.val
    /\ UNCHANGED <<packages, idx, results, printed>>

\* main(training): print(training.show_training_info().get_message()),
\* then the next iteration of the loop
Main ==
    /\ pc = "main"
    /\ LET info == show_training_info(training) IN
       IF info.exc # ""
       THEN /\ pc' = "faulted"
            /\ error' = info.exc
            /\ UNCHANGED <<idx, printed>>
       ELSE /\ printed' = Append(printed, [entry |-> idx, info |-> info.val,
                                           line |-> get_message(info.val)])
            /\ idx' = idx + 1
            /\ pc' = IF idx = Len(packages) THEN "done" ELSE "check"
            /\ error' = error
    /\ UNCHANGED <<packages, results, training, readCalls>>

Next == CheckData \/ ReadPackage \/ Main

Spec == Init /\ [][Next]_vars

----------------------------------------------------------------------------
(* The checks of the validator, each stated on its own, and the vocabulary *)
(* of the properties.                                                      *)

Range(s) == {s[i] : i \in DOMAIN s}

Least(S) == CHOOSE i \in S : \A j \in S : i <= j

KnownCodes == {"SWM", "RUN", "WLK"}

RequiredArity(code) ==
    CASE code = "SWM" -> 5
      [] code = "RUN" -> 3
      [] code = "WLK" -> 4

ArityFails(e) ==
    e.workout_type \in KnownCodes
    /\ Len(e.data) # RequiredArity(e.workout_type)

HasWeight(e) == Len(e.data) >= 3

WeightValid(e) == RLt(N(35), e.data[3]) /\ RLt(e.data[3], N(610))

\* a list without args[2] gives the weight check no outcome
WeightFails(e) == HasWeight(e) /\ ~WeightValid(e)

PoolInvalid(e) == ~RLt(N(1), e.data[4]) \/ ~RLt(e.data[4], N(1013))

PoolFails(e) == e.workout_type = "SWM" /\ Len(e.data) >= 4 /\ PoolInvalid(e)

HeightFails(e) ==
    /\ e.workout_type = "WLK"
    /\ Len(e.data) >= 4
    /\ (~RLt(N(50), e.data[4]) \/ ~RLt(e.data[4], N(251)))

CodeFails(e) == e.workout_type \notin KnownCodes

\* the checks in the order arity, weight, pool length, height, code
FailingChecks(e) ==
    {k \in 1..5 : \/ k = 1 /\ ArityFails(e)
                  \/ k = 2 /\ WeightFails(e)
                  \/ k = 3 /\ PoolFails(e)
                  \/ k = 4 /\ HeightFails(e)
                  \/ k = 5 /\ CodeFails(e)}

CheckMessage(k) ==
    CASE k = 1 -> MsgArgs
      [] k = 2 -> MsgWeight
      [] k = 3 -> MsgPool
      [] k = 4 -> MsgHeight
      [] k = 5 -> MsgCode

\* the entries check_data has been applied to so far
Checked == 1..Len(results)

\* no line was printed for entry i
NoLine(i) == \A k \in 1..Len(printed) : printed[k].entry # i

----------------------------------------------------------------------------
\* C1: check_data reports the first failing check in the order arity, weight,
\* pool length, height, unknown code: when two or more checks fail (and in
\* fact whenever it returns with a failing check) the message is that of the
\* earliest one, and it returns None exactly when no check fails.
C1_FirstFailingCheckWins ==
    \A i \in Checked :
        LET F == FailingChecks(packages[i]) IN
        /\ Cardinality(F) >= 2 => results[i] = CheckMessage(Least(F))
        /\ (F # {} /\ results[i] # "raised")
               => results[i] = CheckMessage(Least(F))
        /\ results[i] = None <=> F = {}

\* an unknown code with a weight of 610: weight wins over unknown code
C1_Witness ==
    \E i \in Checked :
        /\ FailingChecks(packages[i]) = {2, 5}
        /\ results[i] = MsgWeight

----------------------------------------------------------------------------
(* The driver's abort policy.                                              *)

Finished == pc \in {"done", "faulted"}

\* check_data does not accept the entry
Rejected(e) == FailingChecks(e) # {}

ZeroDuration(e) == Len(e.data) >= 2 /\ IsZero(e.data[2])

\* index of the first entry of the batch that satisfies P, or one past the end
FirstRejected ==
    Least({i \in 1..Len(packages) : Rejected(packages[i])}
          \cup {Len(packages) + 1})

\* the first entry that check_data does not accept or whose summary divides
\* by a zero duration
FirstStop ==
    Least({i \in 1..Len(packages) :
               Rejected(packages[i]) \/ ZeroDuration(packages[i])}
          \cup {Len(packages) + 1})

\* the lines printed so far belong to the entries 1, 2, ... in this order
LinesInBatchOrder == \A k \in 1..Len(printed) : printed[k].entry = k

\* C2 as stated: every entry before the first rejected one gets exactly one
\* line, in batch order, and the rejected entry and all later ones are never
\* passed to read_package and produce no line.
C2_AsStated ==
    (Finished /\ FirstRejected <= Len(packages)) =>
        /\ LinesInBatchOrder
        /\ Len(printed) = FirstRejected - 1
        /\ \A c \in Range(readCalls) : c < FirstRejected

\* C2: the run stops at the first entry that check_data does not accept or
\* whose summary divides by a zero duration: every entry before it gets
\* exactly one line, in batch order, that entry and all later ones produce no
\* line, and a rejected entry and the entries after it are never passed to
\* read_package.
C2_AbortOnFirstError ==
    /\ LinesInBatchOrder
    /\ Len(printed) < FirstStop
    /\ Finished => Len(printed) = FirstStop - 1
    /\ \A c \in Range(readCalls) : c < FirstRejected /\ c <= FirstStop

\* a batch whose first entry printed its line and whose second was rejected
C2_Witness ==
    /\ pc = "faulted"
    /\ error = "ValueError"
    /\ FirstRejected = 2
    /\ Len(packages) = 2
    /\ Len(printed) = 1
    /\ readCalls = <<1>>

----------------------------------------------------------------------------
\* C3 as stated: every unrecognized code makes check_data return the
\* unknown-code message, and read_package is never called for the entry.
C3_AsStated ==
    \A i \in Checked :
        CodeFails(packages[i]) =>
            results[i] = MsgCode /\ i \notin Range(readCalls)

\* C3: an unrecognized code whose argument list has a weight in range
\* (35 < args[2] < 610) makes check_data return the unknown-code message,
\* and for every unrecognized code read_package is never called for the entry.
C3_UnknownCode ==
    \A i \in Checked :
        CodeFails(packages[i]) =>
            /\ (HasWeight(packages[i]) /\ WeightValid(packages[i]))
                   => results[i] = MsgCode
            /\ i \notin Range(readCalls)
            /\ NoLine(i)
            /\ pc = "faulted"

\* ('PLT', [12000, 1, 60]) after a printed first entry
C3_Witness ==
    \E i \in Checked :
        /\ packages[i] = E("PLT", <<N(12000), N(1), N(60)>>)
        /\ results[i] = MsgCode
        /\ error = "ValueError"

----------------------------------------------------------------------------
\* C4: the weight bounds are exclusive and apply to every code: once the
\* arity check has passed, args[2] <= 35 or args[2] >= 610 gives the weight
\* message, and 35 < args[2] < 610 does not.
C4_WeightBounds ==
    \A i \in Checked :
        LET e == packages[i] IN
        (~ArityFails(e) /\ HasWeight(e)) =>
            /\ (~RLt(N(35), e.data[3]) \/ ~RLt(e.data[3], N(610)))
                   => results[i] = MsgWeight
            /\ (RLt(N(35), e.data[3]) /\ RLt(e.data[3], N(610)))
                   => results[i] \notin {MsgWeight, "raised"}

\* an unknown code with a weight of exactly 610 gets the weight message
C4_Witness ==
    \E i \in Checked :
        /\ CodeFails(packages[i])
        /\ HasWeight(packages[i])
        /\ packages[i].data[3] = N(610)
        /\ results[i] = MsgWeight

\* a walking list with a weight of 35.01 is accepted
C4_WitnessAccepted ==
    \E i \in Checked :
        /\ packages[i].workout_type = "WLK"
        /\ HasWeight(packages[i])
        /\ packages[i].data[3] = D(3501, 100)
        /\ results[i] = None

----------------------------------------------------------------------------
\* C5 as stated: for 'SWM' with a weight in range, an invalid pool length
\* args[3] gives the pool-length message.
C5_AsStated ==
    \A i \in Checked :
        LET e == packages[i] IN
        (e.workout_type = "SWM" /\ Len(e.data) >= 4 /\ WeightValid(e)
         /\ PoolInvalid(e))
            => results[i] = MsgPool

\* C5: for 'SWM' with exactly 5 arguments and a weight in range, an invalid
\* pool length (args[3] <= 1 or args[3] >= 1013) gives the pool-length
\* message.
C5_PoolLength ==
    \A i \in Checked :
        LET e == packages[i] IN
        (e.workout_type = "SWM" /\ Len(e.data) = 5 /\ WeightValid(e)
         /\ PoolInvalid(e))
            => results[i] = MsgPool

\* a pool length of exactly 1013 m
C5_Witness ==
    \E i \in Checked :
        /\ packages[i].workout_type = "SWM"
        /\ Len(packages[i].data) = 5
        /\ packages[i].data[4] = N(1013)
        /\ WeightValid(packages[i])
        /\ results[i] = MsgPool

----------------------------------------------------------------------------
(* The formulas of the summaries.                                          *)

Scenario1 == E("RUN", <<N(15000), N(1), N(75)>>)

\* (18 * 9.75 + 1.79) * 75 / 1000 * 1 * 60
Scenario1Calories ==
    RMul(RMul(RDiv(RMul(RAdd(RMul(N(18), D(975, 100)), D(179, 100)), N(75)),
                   N(1000)),
              N(1)),
         N(60))

\* scenario 1 is accepted and its summary has distance 9.75, speed 9.75 and
\* the calories of the Running formula
Scenario1Summary ==
    /\ \A i \in Checked : packages[i] = Scenario1 => results[i] = None
    /\ \A k \in 1..Len(printed) :
           packages[printed[k].entry] = Scenario1 =>
               /\ printed[k].info.distance = D(975, 100)
               /\ printed[k].info.speed = D(975, 100)
               /\ printed[k].info.calories = Scenario1Calories
               /\ printed[k].line.distance = 9750
               /\ printed[k].line.speed = 9750

\* C6 as stated: ... and the calories render as 791.021.
C6_AsStated ==
    /\ Scenario1Summary
    /\ \A k \in 1..Len(printed) :
           packages[printed[k].entry] = Scenario1 =>
               printed[k].line.calories = 791021

\* C6: ('RUN', [15000, 1, 75]) passes validation and its summary has distance
\* 9.75 km, mean speed 9.75 km/h and calories (18*9.75+1.79)*75/1000*1*60,
\* which is 797.805 when rendered to three decimals.
C6_Scenario1 ==
    /\ Scenario1Summary
    /\ \A k \in 1..Len(printed) :
           packages[printed[k].entry] = Scenario1 =>
               printed[k].line.calories = 797805

C6_Witness ==
    \E k \in 1..Len(printed) :
        /\ packages[printed[k].entry] = Scenario1
        /\ printed[k].line.training_type = "Running"

----------------------------------------------------------------------------
\* the two entries are Swimming inputs that differ in the stroke count only
DifferInStrokesOnly(e, f) ==
    /\ e.workout_type = "SWM"
    /\ f.workout_type = "SWM"
    /\ Len(e.data) = 5
    /\ Len(f.data) = 5
    /\ e.data[1] # f.data[1]
    /\ \A n \in 2..5 : e.data[n] = f.data[n]

\* C7: for every accepted Swimming input with a non-zero duration the mean
\* speed is pool_length * pool_crossings / 1000 / duration; two Swimming
\* inputs that differ only in the stroke count have the same mean speed and
\* calories, and their distances stroke_count * 1.38 / 1000 differ.
C7_SwimmingSpeed ==
    /\ \A k \in 1..Len(printed) :
           LET e == packages[printed[k].entry] IN
           e.workout_type = "SWM" =>
               /\ printed[k].info.speed =
                      RDiv(RDiv(RMul(e.data[4], e.data[5]), N(1000)),
                           e.data[2])
               /\ printed[k].info.distance =
                      RDiv(RMul(e.data[1], D(138, 100)), N(1000))
    /\ \A k, m \in 1..Len(printed) :
           DifferInStrokesOnly(packages[printed[k].entry],
                               packages[printed[m].entry]) =>
               /\ printed[k].info.speed = printed[m].info.speed
               /\ printed[k].info.calories = printed[m].info.calories
               /\ printed[k].info.distance # printed[m].info.distance

\* two printed Swimming summaries of 720 and of 721 strokes
C7_Witness ==
    \E k, m \in 1..Len(printed) :
        /\ DifferInStrokesOnly(packages[printed[k].entry],
                               packages[printed[m].entry])
        /\ printed[k].line.speed = 1000

----------------------------------------------------------------------------
\* correct arity, valid weight, height and pool length, and a zero duration
ValidButZeroDuration(e) == ~Rejected(e) /\ ZeroDuration(e)

\* C8: an entry of any of the three codes with correct arity, valid
\* weight/height/pool length and duration 0 is accepted by check_data, the
\* variant is constructed, the summary faults on the division by the
\* duration, and no line is printed for the entry.
C8_ZeroDuration ==
    \A i \in 1..Len(packages) :
        ValidButZeroDuration(packages[i]) =>
            /\ i \in Checked => results[i] = None
            /\ NoLine(i)
            /\ (idx = i /\ pc = "main") =>
                   /\ training.cls = workouts[packages[i].workout_type]
                   /\ IsZero(training.duration)
            /\ (i \in Range(readCalls) /\ pc # "main") =>
                   /\ pc = "faulted"
                   /\ error = "ZeroDivisionError"
                   /\ idx = i

\* a walking entry of zero duration after its summary has faulted
C8_Witness ==
    /\ pc = "faulted"
    /\ error = "ZeroDivisionError"
    /\ ValidButZeroDuration(packages[idx])
    /\ training.cls = "SportsWalking"
    /\ idx \in Range(readCalls)

----------------------------------------------------------------------------
\* C9: for an unrecognized code with fewer than 3 arguments check_data
\* returns no message at all: it faults on indexing args[2].
C9_ShortUnknownFaults ==
    \A i \in Checked :
        (CodeFails(packages[i]) /\ Len(packages[i].data) < 3) =>
            /\ results[i] = "raised"
            /\ error = "IndexError"
            /\ pc = "faulted"

C9_Witness ==
    \E i \in Checked :
        /\ packages[i].workout_type = "PLT"
        /\ Len(packages[i].data) = 2
        /\ error = "IndexError"

----------------------------------------------------------------------------
\* C10: whenever check_data returns None the code is one of SWM/RUN/WLK and
\* the list has the arity of the mapped class (5, 3, 4), so read_package
\* constructs exactly one object of the mapped class and never fails on the
\* lookup or on the argument count.
C10_AcceptedIsConstructible ==
    /\ \A i \in Checked :
           results[i] = None =>
               /\ packages[i].workout_type \in KnownCodes
               /\ Len(packages[i].data) =
                      RequiredArity(packages[i].workout_type)
    /\ error \notin {"KeyError", "TypeError"}
    /\ \A k, m \in 1..Len(readCalls) : readCalls[k] = readCalls[m] => k = m
    /\ pc = "main" =>
           /\ readCalls[Len(readCalls)] = idx
           /\ training.cls =
                  (CASE packages[idx].workout_type = "SWM" -> "Swimming"
                     [] packages[idx].workout_type = "RUN" -> "Running"
                     [] packages[idx].workout_type = "WLK" -> "SportsWalking")

\* a second entry, a walking one, constructed after the first was printed
C10_Witness ==
    /\ pc = "main"
    /\ idx = 2
    /\ results = <<None, None>>
    /\ training.cls = "SportsWalking"
    /\ readCalls = <<1, 2>>

====
